---- MODULE Spec2Model ----
(***************************************************************************)
(* A model of the two page scripts of conus-data-viz:                      *)
(*   app.js    - raster viewer: loadLayer, the min/max sliders, the hover  *)
(*               tooltip;                                                  *)
(*   states.js - state dashboard: setGridLayer, the grid toggle, the       *)
(*               max-only slider, the grid legend.                         *)
(* Each script runs on a page of its own (each ends with main()), so each  *)
(* has specifications of its own.  JavaScript is single threaded: one      *)
(* action is one task, i.e. the code that runs between two suspension      *)
(* points (await, requestAnimationFrame).  Arithmetic is exact: the        *)
(* rounding of floating point numbers is not modelled.                     *)
(*                                                                         *)
(* Numbers are integers.  A nullable number n is the tuple <<>> (null) or  *)
(* <<n>>; a nullable object reference is 0 (null) or a positive id; a      *)
(* nullable manifest entry / georaster is the key "none" or a dataset key. *)
(***************************************************************************)
EXTENDS Integers, Sequences, FiniteSets, Bags, TLC

\* ------------------------------------------------------------------ bounds
\* Raster layers at a time: those whose load is in flight, those on the map
\* and the one the script references.  A layer that is neither on the map
\* nor referenced is garbage; its id is used again.
MaxLayers == 2
\* Hover computations that have started and are not finished (scheduled
\* frame callbacks plus awaited getValues calls).
MaxHover == 2

\* ---------------------------------------------------------- shared helpers
None == <<>>
Some(v) == <<v>>
IsNone(o) == o = <<>>
Val(o) == o[1]

Max2(a, b) == IF a >= b THEN a ELSE b
Min2(a, b) == IF a <= b THEN a ELSE b

\* A cell without data (null / NaN in the raster).
NoData == None

\* ------------------------------------------------------------------ inputs
\* data/manifest.json and the GeoTIFFs it names are inputs of the page.  The
\* keys stand for (variable, year) pairs of the two select boxes; "N" is a
\* pair the select boxes offer and the manifest has no entry for; "D" is an
\* entry whose min is not below its max.
Keys == {"A", "B", "D", "N"}

Manifest ==
  [A |-> [min |-> 0,  max |-> 100],
   B |-> [min |-> 10, max |-> 60],
   D |-> [min |-> 50, max |-> 50]]

HasEntry(k) == k \in DOMAIN Manifest

\* What parseGeoraster returns for each tif: the georeferencing, and either a
\* materialized grid (values) or a lazy region fetch (getValues).  "A" is the
\* 2x2 grid of the specification's scenario.
Georasters ==
  [A |-> [xmin |-> -10, ymax |-> 10, pixelWidth |-> 5, pixelHeight |-> 5,
          width |-> 2, height |-> 2, lazy |-> FALSE,
          cells |-> <<<<Some(1), NoData>>, <<Some(3), Some(4)>>>>],
   B |-> [xmin |-> 0, ymax |-> 6, pixelWidth |-> 2, pixelHeight |-> 3,
          width |-> 3, height |-> 1, lazy |-> TRUE,
          cells |-> <<<<Some(7), NoData, Some(9)>>>>],
   D |-> [xmin |-> -10, ymax |-> 10, pixelWidth |-> 5, pixelHeight |-> 5,
          width |-> 2, height |-> 2, lazy |-> FALSE,
          cells |-> <<<<Some(5), Some(5)>>, <<Some(5), Some(5)>>>>]]

\* The numbers a range slider can be dragged to.
SliderValues == {0, 10, 50, 60, 100}

\* Pointer positions [lat, lng] of the mousemove events.
HoverPoints ==
  {[lat |-> 8, lng |-> -9], [lat |-> -1, lng |-> 0], [lat |-> 5, lng |-> 1]}

\* --------------------------------------------------------------- variables
VARIABLES
  \* ---- app.js
  rasterLayer,       \* 0 or the id of the layer the script references
  currentGeoraster,  \* "none" or the key of the georaster hover reads
  displayMin,        \* nullable number
  displayMax,        \* nullable number
  minSlider,         \* [min, max, value] of the range input
  maxSlider,
  legend,            \* nullable <<min, max>> the #legend element shows
  downloadNc,        \* key whose .nc the download link points to, or "none"
  varSelect,         \* the (variable, year) pair the select boxes show
  mapLayers,         \* ids of the raster layers added to the map
  layerRaster,       \* layer id -> key of its georaster ("none": no layer)
  drawn,             \* nullable <<min, max>> rasterLayer was last drawn with
  loads,             \* bag of the loadLayer calls at their awaits: [key]
  mainPc,            \* position of main()
  hoverRAF,          \* TRUE when a requestAnimationFrame handle is stored
  rafQueue,          \* scheduled frame callbacks: the events they close over
  hoverAwait,        \* hover callbacks suspended at await getValues
  hoverTooltip,      \* nullable content of the tooltip when it is open on the map
  lastQuery,         \* nullable locals of the hover callback that ended last
  pointer,           \* e.latlng of the last mousemove event
  pointerOver,       \* TRUE from a mousemove event until the next mouseout event
  tile,              \* nullable locals of the pixel function at the last tile draw
  \* ---- states.js (numbers are in thousandths of the manifest's unit)
  gridManifest,      \* TRUE once data/manifest.json has been fetched
  gridLayer,         \* 0 or the id of the layer the script references
  gridGeoraster,     \* "none" or a key
  currentGridEntry,  \* "none" or the key of a manifest entry
  currentGridVar,    \* "none" or the key whose variable name it is
  gridDisplayMax,    \* nullable number
  gridMaxT,          \* the fraction [n, d], standing for n / d
  gridMaxSliderEl,   \* [value, disabled] of the range input (0..1000)
  gridMaxValueEl,    \* nullable number the text beside the slider shows
  gridLegend,        \* nullable [var, min, max] the legend control shows
  gridMapLayers,     \* ids of the grid layers added to the map
  gridLayerRaster,   \* layer id -> key of its georaster ("none": no layer)
  gridDrawn,         \* nullable <<min, max>> gridLayer was last drawn with
  gridToggle,        \* gridToggle.checked
  gridSelect,        \* the (year, sector) pair the select boxes show
  gridCalls,         \* bag of the setGridLayer calls at an await: [key, pc]
  stMainPc,          \* position of main()
  gridTile           \* nullable locals of the pixel function at the last tile draw

appVars == <<rasterLayer, currentGeoraster, displayMin, displayMax, minSlider,
             maxSlider, legend, downloadNc, varSelect, mapLayers, layerRaster,
             drawn, loads, mainPc, hoverRAF, rafQueue, hoverAwait, hoverTooltip,
             lastQuery, pointer, pointerOver, tile>>

stVars == <<gridManifest, gridLayer, gridGeoraster, currentGridEntry,
            currentGridVar, gridDisplayMax, gridMaxT, gridMaxSliderEl,
            gridMaxValueEl, gridLegend, gridMapLayers, gridLayerRaster,
            gridDrawn, gridToggle, gridSelect, gridCalls, stMainPc, gridTile>>

vars == <<appVars, stVars>>

hoverVars == <<hoverRAF, rafQueue, hoverAwait, hoverTooltip, lastQuery, pointer,
               pointerOver>>
rangeVars == <<displayMin, displayMax, minSlider, maxSlider, legend, drawn>>
loadVars == <<rasterLayer, currentGeoraster, downloadNc, varSelect, mapLayers,
              layerRaster, loads, mainPc>>

\* ------------------------------------------------------------------ app.js

\* An <input type=range>: the browser keeps value within [min, max], and at
\* min when max < min.
RangeSanitize(lo, hi, v) ==
  IF hi < lo THEN lo ELSE Max2(lo, Min2(hi, v))

\* slider.min = lo; slider.max = hi; slider.value = v
SetRange(lo, hi, v) == [min |-> lo, max |-> hi, value |-> RangeSanitize(lo, hi, v)]

\* makeLegend(min, max): the labels show min and max.
makeLegend(min, max) == Some(<<min, max>>)

\* The layer objects that are still reachable: those on the map and the one
\* the script references.  f is id -> key; the others are dropped from it.
KeepLive(f, onMap, ref) ==
  [i \in 1..MaxLayers |-> IF i \in onMap \cup {ref} THEN f[i] ELSE "none"]

\* The state when main() has registered its listeners and is about to call
\* refresh().
AppInit ==
  /\ rasterLayer = 0
  /\ currentGeoraster = "none"
  /\ displayMin = None
  /\ displayMax = None
  /\ minSlider = [min |-> 0, max |-> 100, value |-> 50]
  /\ maxSlider = [min |-> 0, max |-> 100, value |-> 50]
  /\ legend = None
  /\ downloadNc = "none"
  /\ varSelect = "A"
  /\ mapLayers = {}
  /\ layerRaster = [i \in 1..MaxLayers |-> "none"]
  /\ drawn = None
  /\ loads = EmptyBag
  /\ mainPc = "refresh"
  /\ hoverRAF = FALSE
  /\ rafQueue = <<>>
  /\ hoverAwait = <<>>
  /\ hoverTooltip = None
  /\ lastQuery = None
  /\ pointer = [lat |-> 0, lng |-> 0]
  /\ pointerOver = FALSE
  /\ tile = None

\* new GeoRasterLayer(...): the id of the next layer object.
FreeLayers == (1..MaxLayers) \ (mapLayers \cup {rasterLayer})
NewLayer == CHOOSE i \in FreeLayers : \A j \in FreeLayers : i <= j

\* Whether one more load may start: each load in flight will need a layer.
RoomForLoad == BagCardinality(loads) < Cardinality(FreeLayers)

\* loadLayer(varName, year) up to its first await.
loadLayer(k) ==
  IF ~HasEntry(k)
    THEN UNCHANGED <<rasterLayer, currentGeoraster, displayMin, displayMax,
                     minSlider, maxSlider, legend, downloadNc, mapLayers,
                     layerRaster, drawn, loads>>
    ELSE LET entry == Manifest[k] IN
         /\ RoomForLoad
         /\ downloadNc' = k
         /\ displayMin' = Some(entry.min)
         /\ displayMax' = Some(entry.max)
         /\ minSlider' = SetRange(entry.min, entry.max, entry.min)
         /\ maxSlider' = SetRange(entry.min, entry.max, entry.max)
         /\ legend' = makeLegend(entry.min, entry.max)
         /\ mapLayers' = IF rasterLayer # 0 THEN mapLayers \ {rasterLayer}
                                            ELSE mapLayers
         /\ layerRaster' = KeepLive(layerRaster, mapLayers', rasterLayer)
         /\ loads' = loads (+) SetToBag({[key |-> k]})
         /\ UNCHANGED <<rasterLayer, currentGeoraster, drawn>>

\* main(): await refresh(), the first load, of the default selection.
MainRefresh ==
  /\ mainPc = "refresh"
  /\ mainPc' = "done"
  /\ loadLayer(varSelect)
  /\ UNCHANGED <<varSelect, hoverVars, tile, stVars>>

\* A change event of varSelect or yearSelect: refresh().
SelectChange(k) ==
  /\ mainPc = "done"
  /\ varSelect' = k
  /\ loadLayer(k)
  /\ UNCHANGED <<mainPc, hoverVars, tile, stVars>>

\* loadLayer after its awaits (fetch, arrayBuffer, parseGeoraster: no state
\* is read or written between them): the layer is created and added.
LoadResolve(l) ==
  /\ BagIn(l, loads)
  /\ loads' = loads (-) SetToBag({l})
  /\ currentGeoraster' = l.key
  /\ rasterLayer' = NewLayer
  /\ mapLayers' = mapLayers \cup {NewLayer}
  /\ layerRaster' = KeepLive([layerRaster EXCEPT ![NewLayer] = l.key],
                             mapLayers', NewLayer)
  /\ drawn' = IF IsNone(displayMin) THEN None
              ELSE Some(<<Val(displayMin), Val(displayMax)>>)
  /\ UNCHANGED <<displayMin, displayMax, minSlider, maxSlider, legend,
                 downloadNc, varSelect, mainPc, hoverVars, tile, stVars>>

\* One of the awaits rejects (network error, malformed tif): loadLayer throws.
LoadReject(l) ==
  /\ BagIn(l, loads)
  /\ loads' = loads (-) SetToBag({l})
  /\ UNCHANGED <<rasterLayer, currentGeoraster, displayMin, displayMax,
                 minSlider, maxSlider, legend, downloadNc, varSelect,
                 mapLayers, layerRaster, drawn, mainPc, hoverVars, tile, stVars>>

\* updateColorScale(), given the sliders as the input event left them.
updateColorScale(newMin, newMax) ==
  /\ displayMin' = Some(newMin.value)
  /\ displayMax' = Some(newMax.value)
  /\ IF newMin.value >= newMax.value
       THEN UNCHANGED <<legend, drawn>>
       ELSE /\ legend' = makeLegend(newMin.value, newMax.value)
            /\ drawn' = IF rasterLayer # 0
                          THEN Some(<<newMin.value, newMax.value>>)
                          ELSE drawn

\* An input event of minSlider (its listener exists once main() has
\* registered it, in the task that calls refresh()).
MinSliderInput(v) ==
  /\ mainPc = "done"
  /\ v = RangeSanitize(minSlider.min, minSlider.max, v)
  /\ v # minSlider.value
  /\ minSlider' = [minSlider EXCEPT !.value = v]
  /\ updateColorScale(minSlider', maxSlider)
  /\ UNCHANGED <<maxSlider, loadVars, hoverVars, tile, stVars>>

\* An input event of maxSlider.
MaxSliderInput(v) ==
  /\ mainPc = "done"
  /\ v = RangeSanitize(maxSlider.min, maxSlider.max, v)
  /\ v # maxSlider.value
  /\ maxSlider' = [maxSlider EXCEPT !.value = v]
  /\ updateColorScale(minSlider, maxSlider')
  /\ UNCHANGED <<minSlider, loadVars, hoverVars, tile, stVars>>

\* ----------------------------------------------------------- app.js: hover

\* The mutant of HoverCol: the quotient is truncated toward zero (as by
\* Math.trunc or | 0) instead of floored.
HoverColTruncated(g, lng) ==
  IF lng >= g.xmin THEN (lng - g.xmin) \div g.pixelWidth
                   ELSE -((g.xmin - lng) \div g.pixelWidth)

\* col and row of the cell under (lat, lng).  Math.floor of a quotient whose
\* divisor is positive is \div.
HoverCol(g, lng) == (lng - g.xmin) \div g.pixelWidth
HoverRow(g, lat) == (g.ymax - lat) \div g.pixelHeight

\* col < 0 || row < 0 || col >= width || row >= height
OutOfGrid(g, row, col) == col < 0 \/ row < 0 \/ col >= g.width \/ row >= g.height

\* values[0][row][col], and what getValues resolves to for the cell.
CellValue(g, row, col) == g.cells[row + 1][col + 1]

\* Hover computations that have started and have not finished.
HoverInProgress == Len(rafQueue) + Len(hoverAwait)

\* The end of the frame callback, once v is known: the tooltip is closed for
\* a cell without data and shown otherwise.
HoverShow(e, row, col, v) ==
  /\ hoverTooltip' =
       IF v = NoData THEN None
       ELSE Some([var |-> varSelect, value |-> Val(v), lat |-> e.lat, lng |-> e.lng])
  /\ lastQuery' = Some([e |-> e, row |-> row, col |-> col, v |-> v,
                       outcome |-> IF v = NoData THEN "nodata" ELSE "value"])

\* The mutant of MouseMoveHandler: no early return while a handle is stored.
MouseMoveHandlerNoGuard(e) ==
  /\ hoverRAF' = TRUE
  /\ rafQueue' = Append(rafQueue, e)
  /\ UNCHANGED <<hoverAwait, hoverTooltip, lastQuery>>

\* map.on("mousemove"): dropped while a frame handle is stored; else a frame
\* callback closing over the event is requested.
MouseMoveHandler(e) ==
  IF hoverRAF
    THEN UNCHANGED <<hoverRAF, rafQueue, hoverAwait, hoverTooltip, lastQuery>>
    ELSE /\ hoverRAF' = TRUE
         /\ rafQueue' = Append(rafQueue, e)
         /\ UNCHANGED <<hoverAwait, hoverTooltip, lastQuery>>

\* A mousemove event at e.
MouseMove(e) ==
  /\ HoverInProgress < MaxHover
  /\ pointer' = e
  /\ pointerOver' = TRUE
  /\ MouseMoveHandler(e)
  /\ UNCHANGED <<loadVars, rangeVars, tile, stVars>>

\* The frame callback, up to its await or its end.
HoverFrame ==
  /\ rafQueue # <<>>
  /\ LET e == Head(rafQueue) IN
     /\ rafQueue' = Tail(rafQueue)
     /\ hoverRAF' = FALSE
     /\ IF currentGeoraster = "none"
          THEN UNCHANGED <<hoverAwait, hoverTooltip, lastQuery>>
          ELSE LET g == Georasters[currentGeoraster]
                   col == HoverCol(g, e.lng)
                   row == HoverRow(g, e.lat)
               IN IF OutOfGrid(g, row, col)
                    THEN /\ hoverTooltip' = None
                         /\ lastQuery' = Some([e |-> e, row |-> row, col |-> col,
                                               v |-> NoData, outcome |-> "outside"])
                         /\ UNCHANGED hoverAwait
                    ELSE IF g.lazy
                           THEN /\ hoverAwait' = Append(hoverAwait,
                                     [e |-> e, key |-> currentGeoraster,
                                      row |-> row, col |-> col])
                                /\ UNCHANGED <<hoverTooltip, lastQuery>>
                           ELSE /\ HoverShow(e, row, col, CellValue(g, row, col))
                                /\ UNCHANGED hoverAwait
  /\ UNCHANGED <<pointer, pointerOver, loadVars, rangeVars, tile, stVars>>

RemoveAt(s, i) == SubSeq(s, 1, i - 1) \o SubSeq(s, i + 1, Len(s))

\* await getValues(...) resolves: the rest of the frame callback.
GetValuesResolve(i) ==
  /\ i \in 1..Len(hoverAwait)
  /\ LET h == hoverAwait[i] IN
     /\ hoverAwait' = RemoveAt(hoverAwait, i)
     /\ HoverShow(h.e, h.row, h.col, CellValue(Georasters[h.key], h.row, h.col))
  /\ UNCHANGED <<hoverRAF, rafQueue, pointer, pointerOver, loadVars, rangeVars,
                 tile, stVars>>

\* await getValues(...) rejects: the frame callback throws.
GetValuesReject(i) ==
  /\ i \in 1..Len(hoverAwait)
  /\ hoverAwait' = RemoveAt(hoverAwait, i)
  /\ UNCHANGED <<hoverRAF, rafQueue, hoverTooltip, lastQuery, pointer,
                 pointerOver, loadVars, rangeVars, tile, stVars>>

\* map.on("mouseout")
MouseOut ==
  /\ hoverTooltip' = None
  /\ pointerOver' = FALSE
  /\ UNCHANGED <<hoverRAF, rafQueue, hoverAwait, lastQuery, pointer,
                 loadVars, rangeVars, tile, stVars>>

\* --------------------------------------------------------------- states.js

\* The entries of data/manifest.json the grid overlay can ask for, in
\* thousandths.  Spans (max - min) are multiples of 1000, so that a slider
\* step s in 0..1000 gives the exact number min + s / 1000 * (max - min).
GridManifest ==
  [A |-> [min |-> 0,    max |-> 2000],
   B |-> [min |-> 1000, max |-> 3000],
   D |-> [min |-> 2000, max |-> 2000]]

GridHasEntry(k) == k \in DOMAIN GridManifest

\* The positions the max slider can be dragged to (its range is 0..1000).
GridSliderSteps == {0, 500, 1000}

\* The range the grid layer's pixelValuesToColorFn normalizes with:
\* min = Number(currentGridEntry?.min ?? 0), max = gridDisplayMax, or
\* Number(currentGridEntry?.max ?? 1) when that is null.
GridRange(entry, dmax) ==
  <<IF entry = "none" THEN 0 ELSE GridManifest[entry].min,
    IF ~IsNone(dmax) THEN Val(dmax)
    ELSE IF entry = "none" THEN 1000 ELSE GridManifest[entry].max>>

\* Math.round(n / d) for d > 0.
RoundDiv(n, d) == (2 * n + d) \div (2 * d)

\* syncGridMaxSliderFromEntry(), as a function of the entry and of the values
\* of gridDisplayMax, gridMaxT, the slider and the value text before it: the
\* values after it.
syncGridMaxSliderFromEntry(entry, dmax, t, el, txt) ==
  IF entry = "none"
    THEN [dmax |-> dmax, t |-> t, el |-> el, txt |-> txt]
    ELSE LET dataMin == GridManifest[entry].min
             dataMax == GridManifest[entry].max
         IN IF dataMax <= dataMin
              THEN [dmax |-> dmax, t |-> t,
                    el |-> [el EXCEPT !.disabled = TRUE], txt |-> None]
              ELSE LET d0 == IF IsNone(dmax) THEN dataMax ELSE Val(dmax)
                       d1 == Max2(dataMin, Min2(dataMax, d0))
                       n == Max2(0, Min2(dataMax - dataMin, d1 - dataMin))
                   IN [dmax |-> Some(d1),
                       t |-> [n |-> n, d |-> dataMax - dataMin],
                       el |-> [value |-> RoundDiv(n * 1000, dataMax - dataMin),
                               disabled |-> FALSE],
                       txt |-> Some(d1)]

\* updateGridLegend(), as a function of the entry, the variable and
\* gridDisplayMax: the content of the legend control.
updateGridLegend(entry, var, dmax) ==
  IF entry = "none" THEN None
  ELSE Some([var |-> var, min |-> GridManifest[entry].min,
             max |-> IF ~IsNone(dmax) THEN Val(dmax) ELSE GridManifest[entry].max])

\* The state when main() has created the legend control and looked up the
\* grid controls, and is about to call refreshGridIfOn().
StInit ==
  /\ gridManifest = FALSE
  /\ gridLayer = 0
  /\ gridGeoraster = "none"
  /\ currentGridEntry = "none"
  /\ currentGridVar = "none"
  /\ gridDisplayMax = None
  /\ gridMaxT = [n |-> 1, d |-> 1]
  /\ gridMaxSliderEl = [value |-> 1000, disabled |-> FALSE]
  /\ gridMaxValueEl = None
  /\ gridLegend = None
  /\ gridMapLayers = {}
  /\ gridLayerRaster = [i \in 1..MaxLayers |-> "none"]
  /\ gridDrawn = None
  /\ gridSelect = "A"
  /\ gridCalls = EmptyBag
  /\ stMainPc = "start"
  /\ gridTile = None

stSliderVars == <<gridDisplayMax, gridMaxT, gridMaxSliderEl, gridMaxValueEl>>
stLayerVars == <<gridManifest, gridLayer, gridGeoraster, currentGridEntry,
                 currentGridVar, gridMapLayers, gridLayerRaster>>

\* setGridLayer from "remove existing" up to await fetch(entry.tif), or to
\* its return when the manifest has no entry.  k is the call's
\* (year, sector); rest are the other suspended calls.  The call that main()
\* awaits is the only one there is while main() awaits it.
setGridLayerBody(k, rest) ==
  /\ gridManifest' = TRUE
  /\ gridLayer' = 0
  /\ gridMapLayers' = IF gridLayer # 0 THEN gridMapLayers \ {gridLayer}
                                       ELSE gridMapLayers
  /\ gridLayerRaster' = KeepLive(gridLayerRaster, gridMapLayers', 0)
  /\ gridGeoraster' = IF gridLayer # 0 THEN "none" ELSE gridGeoraster
  /\ IF ~GridHasEntry(k)
       THEN /\ currentGridEntry' = "none"
            /\ currentGridVar' = "none"
            /\ gridCalls' = rest
            /\ stMainPc' = IF stMainPc = "initLoad" THEN "listening" ELSE stMainPc
       ELSE /\ currentGridEntry' = k
            /\ currentGridVar' = k
            /\ gridCalls' = rest (+) SetToBag({[key |-> k, pc |-> "tif"]})
            /\ UNCHANGED stMainPc
  /\ UNCHANGED <<stSliderVars, gridLegend, gridDrawn>>

\* new GeoRasterLayer(...): the id of the next layer object.
FreeGridLayers == (1..MaxLayers) \ (gridMapLayers \cup {gridLayer})
NewGridLayer == CHOOSE i \in FreeGridLayers : \A j \in FreeGridLayers : i <= j

\* Whether one more call may start: each call in flight may need a layer.
RoomForGridCall == BagCardinality(gridCalls) < Cardinality(FreeGridLayers)

\* A call of setGridLayer(year, sector), up to its first await.
setGridLayer(k) ==
  /\ RoomForGridCall
  /\ IF ~gridManifest
       THEN /\ gridCalls' = gridCalls (+) SetToBag({[key |-> k, pc |-> "manifest"]})
            /\ UNCHANGED <<stLayerVars, stSliderVars, gridLegend, gridDrawn,
                           stMainPc>>
       ELSE setGridLayerBody(k, gridCalls)

\* main(): await refreshGridIfOn(), before the toggle and select listeners
\* are registered.
StMainRefresh ==
  /\ stMainPc = "start"
  /\ IF gridToggle
       THEN /\ RoomForGridCall
            /\ gridCalls' = gridCalls (+)
                 SetToBag({[key |-> gridSelect, pc |-> "manifest"]})
            /\ stMainPc' = "initLoad"
       ELSE /\ stMainPc' = "listening"
            /\ UNCHANGED gridCalls
  /\ UNCHANGED <<stLayerVars, stSliderVars, gridLegend, gridDrawn, gridToggle,
                 gridSelect, gridTile, appVars>>

\* await fetch(GRID_MANIFEST_PATH) ... json() resolves.
GridManifestResolve(c) ==
  /\ BagIn(c, gridCalls) /\ c.pc = "manifest"
  /\ setGridLayerBody(c.key, gridCalls (-) SetToBag({c}))
  /\ UNCHANGED <<gridToggle, gridSelect, gridTile, appVars>>

\* An await of setGridLayer rejects: the call throws.  When it is the call
\* main() awaits, main() throws and registers no further listener.
GridReject(c) ==
  /\ BagIn(c, gridCalls)
  /\ gridCalls' = gridCalls (-) SetToBag({c})
  /\ stMainPc' = IF stMainPc = "initLoad" THEN "failed" ELSE stMainPc
  /\ UNCHANGED <<stLayerVars, stSliderVars, gridLegend, gridDrawn, gridToggle,
                 gridSelect, gridTile, appVars>>

\* setGridLayer after await fetch(entry.tif), arrayBuffer, parseGeoraster: the
\* layer is created and added, the slider and the legend are synchronized.
GridTifResolve(c) ==
  /\ BagIn(c, gridCalls) /\ c.pc = "tif"
  /\ gridCalls' = gridCalls (-) SetToBag({c})
  /\ gridGeoraster' = c.key
  /\ gridLayer' = NewGridLayer
  /\ gridMapLayers' = gridMapLayers \cup {NewGridLayer}
  /\ gridLayerRaster' = [gridLayerRaster EXCEPT ![NewGridLayer] = c.key]
  /\ LET r == syncGridMaxSliderFromEntry(currentGridEntry, gridDisplayMax,
                                         gridMaxT, gridMaxSliderEl, gridMaxValueEl)
     IN /\ gridDrawn' = Some(GridRange(currentGridEntry, r.dmax))
        /\ gridDisplayMax' = r.dmax
        /\ gridMaxT' = r.t
        /\ gridMaxSliderEl' = r.el
        /\ gridMaxValueEl' = r.txt
        /\ gridLegend' = updateGridLegend(currentGridEntry, currentGridVar, r.dmax)
  /\ stMainPc' = IF stMainPc = "initLoad" THEN "listening" ELSE stMainPc
  /\ UNCHANGED <<gridManifest, currentGridEntry, currentGridVar, gridToggle,
                 gridSelect, gridTile, appVars>>

\* refreshGridIfOn(), called by a listener: the toggle and the select boxes
\* are as the event left them.
refreshGridIfOn ==
  IF gridToggle'
    THEN setGridLayer(gridSelect')
    ELSE UNCHANGED <<stLayerVars, stSliderVars, gridLegend, gridDrawn,
                     gridCalls, stMainPc>>

\* The user picks another year or sector.  The change listeners that
\* refresh the grid exist once main() has registered them.
GridSelectChange(k) ==
  /\ gridSelect' = k
  /\ UNCHANGED <<gridToggle, gridTile, appVars>>
  /\ IF stMainPc = "listening"
       THEN refreshGridIfOn
       ELSE UNCHANGED <<stLayerVars, stSliderVars, gridLegend, gridDrawn,
                        gridCalls, stMainPc>>

\* The user checks the grid toggle.
GridToggleOn ==
  /\ ~gridToggle
  /\ gridToggle' = TRUE
  /\ UNCHANGED <<gridSelect, gridTile, appVars>>
  /\ IF stMainPc = "listening"
       THEN refreshGridIfOn
       ELSE UNCHANGED <<stLayerVars, stSliderVars, gridLegend, gridDrawn,
                        gridCalls, stMainPc>>

\* The user unchecks the grid toggle.
GridToggleOff ==
  /\ gridToggle
  /\ gridToggle' = FALSE
  /\ UNCHANGED <<gridSelect, stMainPc, gridManifest, gridCalls, stSliderVars,
                 gridDrawn, gridTile, appVars>>
  /\ IF stMainPc = "listening"
       THEN /\ gridMapLayers' = IF gridLayer # 0 THEN gridMapLayers \ {gridLayer}
                                                 ELSE gridMapLayers
            /\ gridLayer' = 0
            /\ gridLayerRaster' = KeepLive(gridLayerRaster, gridMapLayers', 0)
            /\ gridGeoraster' = "none"
            /\ currentGridEntry' = "none"
            /\ currentGridVar' = "none"
            /\ gridLegend' = updateGridLegend("none", "none", gridDisplayMax)
       ELSE UNCHANGED <<gridLayer, gridGeoraster, currentGridEntry,
                        currentGridVar, gridLegend, gridMapLayers,
                        gridLayerRaster>>

\* An input event of gridMaxSlider at step s (a disabled input gives none).
GridMaxSliderInput(s) ==
  /\ ~gridMaxSliderEl.disabled
  /\ s # gridMaxSliderEl.value
  /\ gridMaxSliderEl' = [gridMaxSliderEl EXCEPT !.value = s]
  /\ UNCHANGED <<stLayerVars, gridToggle, gridSelect, gridCalls, stMainPc,
                 gridTile, appVars>>
  /\ IF currentGridEntry = "none"
       THEN UNCHANGED <<gridDisplayMax, gridMaxT, gridMaxValueEl, gridLegend,
                        gridDrawn>>
       ELSE LET dataMin == GridManifest[currentGridEntry].min
                dataMax == GridManifest[currentGridEntry].max
            IN IF dataMax <= dataMin
                 THEN UNCHANGED <<gridDisplayMax, gridMaxT, gridMaxValueEl,
                                  gridLegend, gridDrawn>>
                 ELSE LET dm == dataMin + (s * (dataMax - dataMin)) \div 1000 IN
                      /\ gridMaxT' = [n |-> s, d |-> 1000]
                      /\ gridDisplayMax' = Some(dm)
                      /\ gridMaxValueEl' = Some(dm)
                      /\ gridDrawn' = IF gridLayer # 0
                                        THEN Some(GridRange(currentGridEntry, Some(dm)))
                                        ELSE gridDrawn
                      /\ gridLegend' = updateGridLegend(currentGridEntry,
                                                        currentGridVar, Some(dm))

\* ------------------------------------------------------------ tile drawing

\* A number t as the fraction n / d (d > 0), or NaN.
Fraction(n, d) == [n |-> n, d |-> d, nan |-> FALSE]
NaN == [n |-> 0, d |-> 0, nan |-> TRUE]

\* Math.max(0, Math.min(1, num / den)).  A quotient by zero is Infinity,
\* -Infinity or (0 / 0) NaN; Math.min and Math.max return NaN for NaN.
ClampedQuotient(num, den) ==
  IF den = 0
    THEN IF num = 0 THEN NaN
         ELSE IF num > 0 THEN Fraction(1, 1) ELSE Fraction(0, 1)
    ELSE LET n == IF den > 0 THEN num ELSE -num
             d == IF den > 0 THEN den ELSE -den
         IN Fraction(Max2(0, Min2(d, n)), d)

\* The non-null values vals[0] the layers pass to pixelValuesToColorFn (for
\* null and NaN the function returns null before it normalizes).
PixelValues == {0, 10, 25, 50, 60, 75, 100}
GridPixelValues == {0, 500, 1000, 1500, 2000, 3000}

\* The mutant of PixelT: the quotient is not clamped.
PixelTUnclamped(min, max, v) ==
  IF max - min > 0 THEN Fraction(v - min, max - min)
                   ELSE ClampedQuotient(v - min, max - min)

\* t of pixelValuesToColorFn in app.js, which reads displayMin and displayMax.
PixelT(min, max, v) == ClampedQuotient(v - min, max - min)

\* t of pixelValuesToColorFn in states.js: denom = (max - min) || 1.
GridPixelT(min, max, v) ==
  ClampedQuotient(v - min, IF max - min = 0 THEN 1000 ELSE max - min)

\* chroma.scale(name)(t).hex(): the colour of the colormap at t.  The colormap
\* is taken to be injective on [0, 1] (the strongest case for a claim that two
\* colours agree): the colour is t itself in lowest terms; NaN gets the
\* colormap's "no data" colour.
RECURSIVE GCD(_, _)
GCD(a, b) == IF b = 0 THEN a ELSE GCD(b, a % b)

Colormap(t) ==
  IF t.nan THEN [n |-> -1, d |-> 1]
  ELSE LET g == GCD(t.n, t.d) IN [n |-> t.n \div g, d |-> t.d \div g]

\* const steps = 40
LegendSteps == 40

\* The mutant of StopValue: t = i / steps.
StopValueOverSteps(min, max, i) ==
  Fraction(LegendSteps * min + i * (max - min), LegendSteps)

\* makeLegend: min + t * (max - min) for t = i / (steps - 1), as a fraction.
StopValue(min, max, i) ==
  Fraction((LegendSteps - 1) * min + i * (max - min), LegendSteps - 1)

\* chroma.scale(name).domain([min, max]) applied to the number x (a
\* fraction): the colormap at (x - min) / (max - min), clamped to [0, 1].
ScaleDomain(min, max, x) ==
  Colormap(ClampedQuotient(x.n - min * x.d, (max - min) * x.d))

\* The gradient stops of makeLegend(min, max) in app.js.
LegendStops(min, max) ==
  [i \in 0..(LegendSteps - 1) |-> ScaleDomain(min, max, StopValue(min, max, i))]

\* The gradient stops of updateGridLegend in states.js: the colormap at
\* t = i / (steps - 1).
GridLegendStops ==
  [i \in 0..(LegendSteps - 1) |-> Colormap(Fraction(i, LegendSteps - 1))]

\* A layer on the map draws a tile (after addTo or redraw(), or when the map
\* is panned or zoomed): its pixel function runs for the pixels of the tile,
\* with displayMin and displayMax as they are then.
TileDraw ==
  /\ mapLayers # {}
  /\ tile' = Some([min |-> Val(displayMin), max |-> Val(displayMax),
                   t |-> [v \in PixelValues |->
                            PixelT(Val(displayMin), Val(displayMax), v)],
                   color |-> [v \in PixelValues |->
                            Colormap(PixelT(Val(displayMin), Val(displayMax), v))]])
  /\ drawn' = IF rasterLayer \in mapLayers
                THEN Some(<<Val(displayMin), Val(displayMax)>>)
                ELSE drawn
  /\ UNCHANGED <<displayMin, displayMax, minSlider, maxSlider, legend,
                 loadVars, hoverVars, stVars>>

\* The same for a grid layer of states.js, whose pixel function reads
\* currentGridEntry and gridDisplayMax.
GridTileDraw ==
  /\ gridMapLayers # {}
  /\ LET r == GridRange(currentGridEntry, gridDisplayMax) IN
     /\ gridTile' = Some([min |-> r[1], max |-> r[2],
                          t |-> [v \in GridPixelValues |->
                                   GridPixelT(r[1], r[2], v)],
                          color |-> [v \in GridPixelValues |->
                                   Colormap(GridPixelT(r[1], r[2], v))]])
     /\ gridDrawn' = IF gridLayer \in gridMapLayers THEN Some(r) ELSE gridDrawn
  /\ UNCHANGED <<stLayerVars, stSliderVars, gridLegend, gridToggle, gridSelect,
                 gridCalls, stMainPc, appVars>>

\* ---------------------------------------------------------- specifications

\* The page of app.js.  The slider handlers and the hover handlers share no
\* variable: the sliders read and write rangeVars, the hover handlers read
\* currentGeoraster and varSelect and write hoverVars.  SpecApp is the page
\* without pointer events over the map, SpecHover the page without slider
\* input.
InitApp == AppInit /\ StInit /\ gridToggle = FALSE

NextLoads ==
  \/ MainRefresh
  \/ \E k \in Keys : SelectChange(k)
  \/ \E l \in BagToSet(loads) : LoadResolve(l)
  \/ \E l \in BagToSet(loads) : LoadReject(l)

NextSliders ==
  \/ \E v \in SliderValues : MinSliderInput(v)
  \/ \E v \in SliderValues : MaxSliderInput(v)

NextHover ==
  \/ \E e \in HoverPoints : MouseMove(e)
  \/ HoverFrame
  \/ \E i \in 1..Len(hoverAwait) : GetValuesResolve(i)
  \/ \E i \in 1..Len(hoverAwait) : GetValuesReject(i)
  \/ MouseOut

NextApp == NextLoads \/ NextSliders

SpecApp == InitApp /\ [][NextApp]_vars

NextAppHover == NextLoads \/ NextHover

SpecHover == InitApp /\ [][NextAppHover]_vars

\* The hover handler alone, over a raster that has been loaded: the state
\* after main() and the first load, for each raster and each pointer position
\* of ResolvePoints; the pointer then stays where it is.
ResolveCoords == -12..12
ResolvePoints == [lat : ResolveCoords, lng : ResolveCoords]

InitResolve ==
  /\ \E k \in DOMAIN Georasters :
       /\ currentGeoraster = k
       /\ varSelect = k
       /\ downloadNc = k
       /\ displayMin = Some(Manifest[k].min)
       /\ displayMax = Some(Manifest[k].max)
       /\ minSlider = SetRange(Manifest[k].min, Manifest[k].max, Manifest[k].min)
       /\ maxSlider = SetRange(Manifest[k].min, Manifest[k].max, Manifest[k].max)
       /\ legend = makeLegend(Manifest[k].min, Manifest[k].max)
       /\ drawn = Some(<<Manifest[k].min, Manifest[k].max>>)
       /\ layerRaster = [i \in 1..MaxLayers |-> IF i = 1 THEN k ELSE "none"]
  /\ rasterLayer = 1
  /\ mapLayers = {1}
  /\ loads = EmptyBag
  /\ mainPc = "done"
  /\ hoverRAF = FALSE
  /\ rafQueue = <<>>
  /\ hoverAwait = <<>>
  /\ hoverTooltip = None
  /\ lastQuery = None
  /\ pointer \in ResolvePoints
  /\ pointerOver = FALSE
  /\ tile = None
  /\ StInit /\ gridToggle = FALSE

NextResolve ==
  \/ MouseMove(pointer)
  \/ HoverFrame
  \/ \E i \in 1..Len(hoverAwait) : GetValuesResolve(i)
  \/ \E i \in 1..Len(hoverAwait) : GetValuesReject(i)
  \/ MouseOut

SpecResolve == InitResolve /\ [][NextResolve]_vars

\* The page of states.js.  The checkbox may be checked or not in the HTML.
InitStates == AppInit /\ StInit /\ gridToggle \in BOOLEAN

NextGrid ==
  \/ StMainRefresh
  \/ \E c \in BagToSet(gridCalls) : GridManifestResolve(c)
  \/ \E c \in BagToSet(gridCalls) : GridTifResolve(c)
  \/ \E c \in BagToSet(gridCalls) : GridReject(c)
  \/ \E k \in Keys : GridSelectChange(k)
  \/ GridToggleOn
  \/ GridToggleOff

NextStates == NextGrid \/ \E s \in GridSliderSteps : GridMaxSliderInput(s)

SpecStates == InitStates /\ [][NextStates]_vars

\* The page of states.js when the user leaves the max slider alone.
SpecStatesNoSlider == InitStates /\ [][NextGrid]_vars

\* The tile draws of either page, over a dataset that has been loaded: the
\* state after main() and a first load that has completed, for each manifest
\* entry; then slider input and tile draws.  The pixel functions read
\* displayMin, displayMax (app.js) and currentGridEntry, gridDisplayMax
\* (states.js) only.
InitTileApp ==
  /\ \E k \in DOMAIN Manifest :
       /\ currentGeoraster = k
       /\ varSelect = k
       /\ downloadNc = k
       /\ displayMin = Some(Manifest[k].min)
       /\ displayMax = Some(Manifest[k].max)
       /\ minSlider = SetRange(Manifest[k].min, Manifest[k].max, Manifest[k].min)
       /\ maxSlider = SetRange(Manifest[k].min, Manifest[k].max, Manifest[k].max)
       /\ legend = makeLegend(Manifest[k].min, Manifest[k].max)
       /\ drawn = Some(<<Manifest[k].min, Manifest[k].max>>)
       /\ layerRaster = [i \in 1..MaxLayers |-> IF i = 1 THEN k ELSE "none"]
  /\ rasterLayer = 1
  /\ mapLayers = {1}
  /\ loads = EmptyBag
  /\ mainPc = "done"
  /\ hoverRAF = FALSE
  /\ rafQueue = <<>>
  /\ hoverAwait = <<>>
  /\ hoverTooltip = None
  /\ lastQuery = None
  /\ pointer = [lat |-> 0, lng |-> 0]
  /\ pointerOver = FALSE
  /\ tile = None
  /\ StInit /\ gridToggle = FALSE

InitTileGrid ==
  /\ AppInit
  /\ \E k \in DOMAIN GridManifest :
       LET r == syncGridMaxSliderFromEntry(k, None, [n |-> 1, d |-> 1],
                  [value |-> 1000, disabled |-> FALSE], None)
       IN /\ gridGeoraster = k
          /\ currentGridEntry = k
          /\ currentGridVar = k
          /\ gridSelect = k
          /\ gridDisplayMax = r.dmax
          /\ gridMaxT = r.t
          /\ gridMaxSliderEl = r.el
          /\ gridMaxValueEl = r.txt
          /\ gridLegend = updateGridLegend(k, k, r.dmax)
          /\ gridDrawn = Some(GridRange(k, r.dmax))
          /\ gridLayerRaster = [i \in 1..MaxLayers |-> IF i = 1 THEN k ELSE "none"]
  /\ gridManifest = TRUE
  /\ gridLayer = 1
  /\ gridMapLayers = {1}
  /\ gridToggle = TRUE
  /\ gridCalls = EmptyBag
  /\ stMainPc = "listening"
  /\ gridTile = None

InitTile == InitTileApp \/ InitTileGrid

NextTile ==
  \/ \E v \in SliderValues : MinSliderInput(v)
  \/ \E v \in SliderValues : MaxSliderInput(v)
  \/ TileDraw
  \/ \E s \in GridSliderSteps : GridMaxSliderInput(s)
  \/ GridTileDraw

SpecTile == InitTile /\ [][NextTile]_vars

\* ------------------------------------------------------------------ claims

\* C1 (as stated; SpecApp).  Superseded load: when no load is in flight any
\* more and the load of the selection last requested has put its layer on the
\* map, the active georaster and the layer the script references are those
\* of that selection, whatever the order in which the loads completed.
C1_LatestLoadIsActive ==
  (mainPc = "done" /\ loads = EmptyBag /\ HasEntry(varSelect)
     /\ \E i \in mapLayers : layerRaster[i] = varSelect)
  => /\ currentGeoraster = varSelect
     /\ rasterLayer \in mapLayers
     /\ layerRaster[rasterLayer] = varSelect

\* C2 (as stated; SpecStates).  At most one raster layer is on the map, and
\* it is the one gridLayer references.
C2_AtMostOneLayerOnMap ==
  /\ Cardinality(gridMapLayers) <= 1
  /\ gridMapLayers \subseteq {gridLayer}

\* C3 (as stated; SpecApp).  A slider input that leaves the sliders with
\* min >= max is rejected: displayMin and displayMax are what they were
\* before the input.
C3_RejectedInputKeepsRange ==
  [][(/\ loads' = loads
      /\ <<minSlider, maxSlider>>' # <<minSlider, maxSlider>>
      /\ minSlider'.value >= maxSlider'.value)
     => <<displayMin, displayMax>>' = <<displayMin, displayMax>>]_vars

\* C4 (as stated; SpecApp).  Whenever a display range exists, min < max
\* holds strictly.
C4_RangeIsStrict ==
  ~IsNone(displayMin) => Val(displayMin) < Val(displayMax)

C6_UnavailableShowsNothing ==
  (mainPc = "done" /\ ~HasEntry(varSelect) /\ loads = EmptyBag)
  => (mapLayers = {} /\ legend = None)

\* The Empty state of the grid overlay.
GridEmpty ==
  /\ gridLayer = 0
  /\ gridMapLayers = {}
  /\ gridGeoraster = "none"
  /\ currentGridEntry = "none"
  /\ currentGridVar = "none"

\* C7 (as stated; SpecStates).  The toggle-off handler leaves the overlay
\* Empty, and while the toggle stays off (no new load is requested) an Empty
\* overlay stays Empty, also when a call of setGridLayer completes.
C7_OffStaysEmpty ==
  [][(stMainPc = "listening" /\ ~gridToggle')
     => /\ gridToggle => GridEmpty'
        /\ (~gridToggle /\ GridEmpty) => GridEmpty']_vars

\* C8 (as stated; SpecApp).  Between tasks, when a layer is installed, the
\* legend labels show the range its pixel function normalizes with
\* (displayMin, displayMax, which it reads when it draws).
C8_LegendShowsRangeInUse ==
  (rasterLayer # 0 /\ rasterLayer \in mapLayers)
  => legend = Some(<<Val(displayMin), Val(displayMax)>>)

\* C9 (as stated; SpecStatesNoSlider).  The task that installs the layer of
\* a load leaves the display range at (min, max) of the manifest entry in
\* use.
C9_InstallResetsRange ==
  [][(/\ gridLayer' # 0
      /\ gridLayer' \notin gridMapLayers
      /\ gridLayer' \in gridMapLayers'
      /\ currentGridEntry' # "none"
      /\ GridManifest[currentGridEntry'].min < GridManifest[currentGridEntry'].max)
     => /\ gridDisplayMax' = Some(GridManifest[currentGridEntry'].max)
        /\ gridDrawn' = Some(<<GridManifest[currentGridEntry'].min,
                               GridManifest[currentGridEntry'].max>>)]_vars

\* C10 (SpecResolve).  Coordinate resolution: for the hover callback that
\* ended last, col and row are the floors of (lng - xmin) / pixelWidth and
\* (ymax - lat) / pixelHeight; the outcome is out-of-bounds exactly when
\* not (0 <= col < width and 0 <= row < height), and otherwise the cell
\* (row, col) was read; the point (xmin, ymax) resolves to (0, 0); and on the
\* 2x2 grid "A", (lat 8, lng -9) gives (0, 0), (lat 8, lng -1) gives (0, 1),
\* (lat -1, lng 0) is out of bounds.
C10_CoordinateResolution ==
  ~IsNone(lastQuery) =>
    LET q == Val(lastQuery)
        g == Georasters[currentGeoraster]
        dx == q.e.lng - g.xmin
        dy == g.ymax - q.e.lat
        inside == 0 <= q.col /\ q.col < g.width /\ 0 <= q.row /\ q.row < g.height
    IN /\ q.col * g.pixelWidth <= dx /\ dx < (q.col + 1) * g.pixelWidth
       /\ q.row * g.pixelHeight <= dy /\ dy < (q.row + 1) * g.pixelHeight
       /\ (q.outcome = "outside") <=> ~inside
       /\ inside => q.v = g.cells[q.row + 1][q.col + 1]
       /\ (dx = 0 /\ dy = 0) => (q.row = 0 /\ q.col = 0 /\ inside)
       /\ currentGeoraster = "A" =>
            /\ q.e = [lat |-> 8, lng |-> -9] => (q.row = 0 /\ q.col = 0 /\ inside)
            /\ q.e = [lat |-> 8, lng |-> -1] => (q.row = 0 /\ q.col = 1 /\ inside)
            /\ q.e = [lat |-> -1, lng |-> 0] => q.outcome = "outside"

\* C10 witness: on grid "A" the hover callback for (lat 8, lng -1) has ended
\* with row 0, col 1 and read that cell, which has no data.
C10_ResolvedSecondColumn ==
  /\ currentGeoraster = "A"
  /\ ~IsNone(lastQuery)
  /\ Val(lastQuery).e = [lat |-> 8, lng |-> -1]
  /\ Val(lastQuery).row = 0
  /\ Val(lastQuery).col = 1
  /\ Val(lastQuery).outcome = "nodata"

\* C11 (SpecTile).  Normalization: at every tile draw with min < max, for
\* every non-null value, t = clamp((value - min) / (max - min), 0, 1): t is
\* a number in [0, 1], t is 0 for value = min and 1 for value = max, t does
\* not decrease when the value increases; and with the range (0, 50) of
\* app.js, t is 1 for 75 and 1/2 for 25.  t is the fraction n / d.
C11_Normalization ==
  LET IsClamped(x, values) ==
        LET span == x.max - x.min IN
        /\ \A v \in values :
             LET t == x.t[v] IN
             /\ ~t.nan /\ t.d > 0 /\ 0 <= t.n /\ t.n <= t.d
             /\ t.n * span = Max2(0, Min2(span, v - x.min)) * t.d
             /\ v = x.min => t.n = 0
             /\ v = x.max => t.n = t.d
        /\ \A v, w \in values :
             v <= w => x.t[v].n * x.t[w].d <= x.t[w].n * x.t[v].d
  IN /\ (~IsNone(tile) /\ Val(tile).min < Val(tile).max) =>
          /\ IsClamped(Val(tile), PixelValues)
          /\ (Val(tile).min = 0 /\ Val(tile).max = 50) =>
               /\ Val(tile).t[75].n = Val(tile).t[75].d
               /\ 2 * Val(tile).t[25].n = Val(tile).t[25].d
     /\ (~IsNone(gridTile) /\ Val(gridTile).min < Val(gridTile).max) =>
          IsClamped(Val(gridTile), GridPixelValues)

\* C11 witness: a tile has been drawn with the range (0, 50) after the max
\* slider was moved, and the value 25 got t = 25 / 50.
C11_DrawnWithHalfRange ==
  /\ ~IsNone(tile)
  /\ Val(tile).min = 0 /\ Val(tile).max = 50
  /\ maxSlider.value = 50
  /\ Val(tile).t[25] = Fraction(25, 50)

\* C12 (as stated; SpecTile).  No tile draw normalizes with max - min <= 0.
C12_NoDegenerateNormalization ==
  ~IsNone(tile) => Val(tile).max - Val(tile).min > 0

\* C13 (as stated; SpecHover).  While no raster layer is on the map (before
\* the first load has completed, after a load that failed, or while the
\* previous layer has been removed), a hover computation that ends opens no
\* tooltip with a cell value: whenever the tooltip changes, it is closed.
C13_EmptyHoverShowsNothing ==
  [][(mapLayers = {} /\ hoverTooltip' # hoverTooltip) => IsNone(hoverTooltip')]_vars

\* C14 (as stated; SpecStates).  Max-slider synchronization: whenever the
\* entry in use has min < max, gridMaxT is in [0, 1] and equals
\* (max in use - min) / (max - min), where the max in use is gridDisplayMax
\* (the entry's max while gridDisplayMax is null).
C14_SliderInSync ==
  (currentGridEntry # "none"
     /\ GridManifest[currentGridEntry].min < GridManifest[currentGridEntry].max)
  => LET dataMin == GridManifest[currentGridEntry].min
         dataMax == GridManifest[currentGridEntry].max
         inUse == GridRange(currentGridEntry, gridDisplayMax)[2]
     IN /\ gridMaxT.d > 0
        /\ 0 <= gridMaxT.n /\ gridMaxT.n <= gridMaxT.d
        /\ gridMaxT.n * (dataMax - dataMin) = (inUse - dataMin) * gridMaxT.d

\* C15 (SpecTile).  Legend and raster colouring agree: when the legend shows
\* a range with min < max, its i-th gradient stop (of 40) is the colour of
\* the colormap at t = i / 39, and every pixel of a tile drawn with that
\* range whose normalized t is i / 39 got exactly that colour; the same for
\* the grid legend and the grid layer of states.js.
C15_LegendMatchesPixels ==
  LET Agree(stops, x, values) ==
        \A i \in 0..(LegendSteps - 1) :
          /\ stops[i] = Colormap(Fraction(i, LegendSteps - 1))
          /\ \A v \in values :
               (~x.t[v].nan /\ x.t[v].n * (LegendSteps - 1) = i * x.t[v].d)
               => x.color[v] = stops[i]
  IN /\ (/\ ~IsNone(legend) /\ ~IsNone(tile)
         /\ Val(legend) = <<Val(tile).min, Val(tile).max>>
         /\ Val(tile).min < Val(tile).max)
        => Agree(LegendStops(Val(tile).min, Val(tile).max), Val(tile), PixelValues)
     /\ (/\ ~IsNone(gridLegend) /\ ~IsNone(gridTile)
         /\ Val(gridLegend).min = Val(gridTile).min
         /\ Val(gridLegend).max = Val(gridTile).max
         /\ Val(gridTile).min < Val(gridTile).max)
        => Agree(GridLegendStops, Val(gridTile), GridPixelValues)

\* C15 witness: the legend shows (0, 50) after the max slider was moved, a
\* tile has been drawn with that range, and its pixel of value 50 has the
\* colour of the last legend stop.
C15_TileUnderLegend ==
  /\ legend = Some(<<0, 50>>)
  /\ ~IsNone(tile)
  /\ Val(tile).min = 0 /\ Val(tile).max = 50
  /\ Val(tile).color[50] = LegendStops(0, 50)[LegendSteps - 1]
  /\ Val(tile).color[25] # LegendStops(0, 50)[LegendSteps - 1]

\* C16 (as stated; SpecStates).  Dataset/range pairing: for every grid layer
\* on the map, the manifest entry its pixel function and the legend read
\* (currentGridEntry) is the entry from whose tif the layer's georaster was
\* decoded.
C16_EntryMatchesLayer ==
  \A i \in gridMapLayers : currentGridEntry = gridLayerRaster[i]

\* C17 (as stated; SpecHover).  From a mouseout event until the next
\* mousemove event the tooltip is closed: no hover computation that was
\* scheduled or awaiting getValues when the pointer left opens it again.
C17_ClosedAfterMouseOut ==
  ~pointerOver => IsNone(hoverTooltip)

============================================================================
